---- MODULE Spec2Model ----
(***************************************************************************)
(* One-address CPU assembler: the lexer (token.rs), the two-section        *)
(* parser with its label tables and the addressing pass (parser.rs), the   *)
(* instruction encoder (instructions.rs) and the driver (main.rs).         *)
(*                                                                         *)
(* The source text is a sequence of words (lexemes).  A source is given by *)
(* a fixed opening sequence of words followed by a freely chosen rest,     *)
(* which the lexer draws word by word from the vocabulary of the source.   *)
(* A span is the index of a token in the source (the end of input is one   *)
(* past the last token).                                                   *)
(***************************************************************************)
EXTENDS Integers, Sequences, FiniteSets, TLC

VARIABLES
    lexer,          \* Parser.lexer: the source, the tokens lexed, end of input
    peeked,         \* Parser.peeked
    text,           \* Parser.text: Vec<Instruction>
    data,           \* Parser.data: Vec<i16>
    text_labels,    \* Parser.text_labels: name -> (u8, Span)
    data_labels,    \* Parser.data_labels: name -> (u8, Span)
    numbers,        \* parse_number_list's local Vec<i16>
    pc,             \* position of main / of the parser's section loops
    err,            \* the ParseError that ended the run, if any
    addressed,      \* main's AddressedProgram, once address_program returned Ok
    data_outfile,   \* the bytes written to the data output file
    text_outfile,   \* the byte pairs written to the text output file
    text_len_at_def,\* history: text length when each text label was defined
    taken,          \* history: the tokens the last step took from the token stream
    instr,          \* the AddressedInstruction an encoder call is applied to
    encoded         \* the result of that call: opcode, alu_op, value, bytes

vars == <<lexer, peeked, text, data, text_labels, data_labels, numbers, pc, err,
          addressed, data_outfile, text_outfile, text_len_at_def, taken, instr,
          encoded>>

parserVars == <<lexer, peeked, text, data, text_labels, data_labels, numbers,
                text_len_at_def>>
\* the parser's state, a step of main after parsing taking no token
parsedVars == <<lexer, peeked, text, data, text_labels, data_labels, numbers>>
outVars == <<addressed, data_outfile, text_outfile>>
encVars == <<instr, encoded>>

-----------------------------------------------------------------------------
(* Bounds of the explored sources *)

\* free tokens of a source written with the whole vocabulary
MaxTokens == 5
\* free tokens of a source written with the label vocabulary
MaxLabelTokens == 9
\* repetitions in the opening of a long source
LongRun == 254
\* free tokens after the opening of a long source
MaxTail == 4

\* the ceiling of add_instr and add_data
StreamCeiling == 255

None == [kind |-> "None"]

-----------------------------------------------------------------------------
(* Words of the source text *)

Kw(s) == [kind |-> "kw", text |-> s]
Ident(s) == [kind |-> "ident", text |-> s]
Dec(ds) == [kind |-> "dec", digits |-> ds]
Hex(ds) == [kind |-> "hex", digits |-> ds]
Junk(s) == [kind |-> "junk", text |-> s]

AluRegMnemonics == {"add", "sub", "mul", "div", "rem", "and"}
ImmediateMnemonics == {"addi", "subi", "muli", "divi", "remi", "andi", "shift"}
Mnemonics == AluRegMnemonics \cup ImmediateMnemonics \cup {"beqz", "br", "clac", "stor", "noop"}
Directives == {".text", ".data", ".label", ".number"}

\* #[token(..)] attributes: keyword -> Token variant
KeywordToken(s) ==
    CASE s = ".text" -> "Text"
      [] s = ".data" -> "Data"
      [] s = ".label" -> "Label"
      [] s = ".number" -> "Number"
      [] s = "add" -> "Add"
      [] s = "addi" -> "AddImmediate"
      [] s = "sub" -> "Subtract"
      [] s = "subi" -> "SubtractImmediate"
      [] s = "mul" -> "Multiply"
      [] s = "muli" -> "MultiplyImmediate"
      [] s = "div" -> "Divide"
      [] s = "divi" -> "DivideImmediate"
      [] s = "rem" -> "Remainder"
      [] s = "remi" -> "RemainderImmediate"
      [] s = "shift" -> "Shift"
      [] s = "and" -> "And"
      [] s = "andi" -> "AndImmediate"
      [] s = "beqz" -> "BranchZero"
      [] s = "br" -> "Branch"
      [] s = "clac" -> "ClearAc"
      [] s = "stor" -> "Store"
      [] s = "noop" -> "NoOp"

I16Max == 32767

\* the digits accumulated with wrapping arithmetic in 16 bits
RECURSIVE from_str_radix_wrapping(_, _, _)
from_str_radix_wrapping(ds, radix, acc) ==
    IF ds = <<>> THEN [ok |-> TRUE, val |-> acc]
    ELSE from_str_radix_wrapping(Tail(ds), radix,
            ((acc * radix + Head(ds) + 32768) % 65536) - 32768)

\* i16::from_str_radix on a string of digits without sign: accumulate with
\* checked multiply and add; overflow gives Err, which .ok() turns into None
RECURSIVE from_str_radix_acc(_, _, _)
from_str_radix_acc(ds, radix, acc) ==
    IF ds = <<>> THEN [ok |-> TRUE, val |-> acc]
    ELSE LET next == acc * radix + Head(ds)
         IN IF next > I16Max THEN [ok |-> FALSE]
            ELSE from_str_radix_acc(Tail(ds), radix, next)

from_str_radix(ds, radix) == from_str_radix_acc(ds, radix, 0)

Tok(k) == [kind |-> k]
NumLiteral(v) == [kind |-> "NumLiteral", val |-> v]
LabelIdent(s) == [kind |-> "LabelIdent", name |-> s]
ErrorToken == [kind |-> "Error"]

\* the callback of the two NumLiteral patterns: None makes the token Error
NumLiteralCallback(ds, radix) ==
    LET r == from_str_radix(ds, radix)
    IN IF r.ok THEN NumLiteral(r.val) ELSE ErrorToken

\* Token::lexer: the token of one word
Lex(w) ==
    CASE w.kind = "kw" -> Tok(KeywordToken(w.text))
      [] w.kind = "dec" -> NumLiteralCallback(w.digits, 10)
      [] w.kind = "hex" -> NumLiteralCallback(w.digits, 16)
      [] w.kind = "ident" -> LabelIdent(w.text)
      [] w.kind = "junk" -> ErrorToken

\* impl Display for Token
to_string(t) ==
    CASE t.kind = "Text" -> ".text"
      [] t.kind = "Data" -> ".data"
      [] t.kind = "Label" -> ".label"
      [] t.kind = "Number" -> ".number"
      [] t.kind = "NumLiteral" -> ToString(t.val)
      [] t.kind = "LabelIdent" -> t.name
      [] t.kind = "Add" -> "add"
      [] t.kind = "AddImmediate" -> "addi"
      [] t.kind = "Subtract" -> "sub"
      [] t.kind = "SubtractImmediate" -> "subi"
      [] t.kind = "Multiply" -> "mul"
      [] t.kind = "MultiplyImmediate" -> "muli"
      [] t.kind = "Divide" -> "div"
      [] t.kind = "DivideImmediate" -> "divi"
      [] t.kind = "Remainder" -> "rem"
      [] t.kind = "RemainderImmediate" -> "remi"
      [] t.kind = "Shift" -> "shift"
      [] t.kind = "And" -> "and"
      [] t.kind = "AndImmediate" -> "andi"
      [] t.kind = "BranchZero" -> "beqz"
      [] t.kind = "Branch" -> "br"
      [] t.kind = "ClearAc" -> "clac"
      [] t.kind = "Store" -> "stor"
      [] t.kind = "NoOp" -> "noop"
      [] t.kind = "Error" -> "Error"

-----------------------------------------------------------------------------
(* The explored sources *)

Names == {"X", "Y"}

LabelMnemonics == AluRegMnemonics \cup {"stor", "beqz", "br"}

AllWords ==
    {Kw(s) : s \in Directives \cup Mnemonics}
    \cup {Ident(s) : s \in Names}
    \cup {Dec(<<5>>), Dec(<<1, 2, 7>>), Dec(<<1, 2, 8>>), Dec(<<3, 2, 7, 6, 8>>),
          Hex(<<7, 15>>), Junk("-")}

\* the vocabulary of a source about labels, written with one mnemonic m
LabelWords(m) ==
    {Kw(s) : s \in Directives \cup {"noop", m}}
    \cup {Ident(s) : s \in Names} \cup {Dec(<<5>>)}

TextTailWords ==
    {Kw("noop"), Kw("addi"), Kw("br"), Kw(".label"), Kw(".data"), Ident("X"), Dec(<<5>>)}

DataTailWords ==
    {Kw(".number"), Kw(".label"), Kw(".text"), Kw("noop"), Ident("Y"), Dec(<<5>>)}

\* the words ws written k times over
Repeat(ws, k) == [i \in 1..(k * Len(ws)) |-> ws[((i - 1) % Len(ws)) + 1]]

\* `.data .label X .number 5 .number 7 .text add X clac`
ScenarioSource ==
    <<Kw(".data"), Kw(".label"), Ident("X"), Kw(".number"), Dec(<<5>>),
      Kw(".number"), Dec(<<7>>), Kw(".text"), Kw("add"), Ident("X"), Kw("clac")>>

\* `.text br X noop .label X noop`
ForwardSource ==
    <<Kw(".text"), Kw("br"), Ident("X"), Kw("noop"), Kw(".label"), Ident("X"),
      Kw("noop")>>

\* `.data .label X .number 0x1234 .number 32767 .number 5 .text noop clac`
WordsSource ==
    <<Kw(".data"), Kw(".label"), Ident("X"), Kw(".number"), Hex(<<1, 2, 3, 4>>),
      Kw(".number"), Dec(<<3, 2, 7, 6, 7>>), Kw(".number"), Dec(<<5>>),
      Kw(".text"), Kw("noop"), Kw("clac")>>

\* `.text noop .data .label X .number 5 .text .label Y clac .data .label Y
\* .number 7 .text br Y`
InterleavedSource ==
    <<Kw(".text"), Kw("noop"), Kw(".data"), Kw(".label"), Ident("X"), Kw(".number"),
      Dec(<<5>>), Kw(".text"), Kw(".label"), Ident("Y"), Kw("clac"), Kw(".data"),
      Kw(".label"), Ident("Y"), Kw(".number"), Dec(<<7>>), Kw(".text"), Kw("br"),
      Ident("Y")>>

\* `.text addi -128`, with the immediate mnemonic m for addi
NegativeSource(m) == <<Kw(".text"), Kw(m), Junk("-"), Dec(<<1, 2, 8>>)>>

\* `.data .label X`, a run of `.number 5` two longer than a long run, and
\* `.number noop`
OverfullDataSource ==
    <<Kw(".data"), Kw(".label"), Ident("X")>>
    \o Repeat(<<Kw(".number"), Dec(<<5>>)>>, LongRun + 2)
    \o <<Kw(".number"), Kw("noop")>>

\* `.data .label X .number 0x7fff .number 0x8000`
WideSource ==
    <<Kw(".data"), Kw(".label"), Ident("X"), Kw(".number"), Hex(<<7, 15, 15, 15>>),
      Kw(".number"), Hex(<<8, 0, 0, 0>>)>>

Src(name, m) == [name |-> name, m |-> m]

Sources ==
    {Src("any", ""), Src("scenario", ""), Src("forward", ""),
     Src("long_text", ""), Src("long_data", ""), Src("words", ""),
     Src("interleaved", ""), Src("overfull_data", ""),
     Src("wide", "")}
    \cup {Src("labels", m) : m \in LabelMnemonics}
    \cup {Src("negative", m) : m \in ImmediateMnemonics}

\* the fixed opening of a source
Opening(src) ==
    CASE src.name = "scenario" -> ScenarioSource
      [] src.name = "forward" -> ForwardSource
      [] src.name = "words" -> WordsSource
      [] src.name = "interleaved" -> InterleavedSource
      [] src.name = "overfull_data" -> OverfullDataSource
      [] src.name = "wide" -> WideSource
      [] src.name = "negative" -> NegativeSource(src.m)
      [] src.name = "long_text" -> <<Kw(".text")>> \o Repeat(<<Kw("noop")>>, LongRun)
      [] src.name = "long_data" ->
            <<Kw(".data"), Kw(".label"), Ident("X")>>
            \o Repeat(<<Kw(".number"), Dec(<<5>>)>>, LongRun)
      [] OTHER -> <<>>

\* the words the rest of a source is written with
Vocabulary(src) ==
    CASE src.name = "any" -> AllWords
      [] src.name = "labels" -> LabelWords(src.m)
      [] src.name = "long_text" -> TextTailWords
      [] src.name = "long_data" -> DataTailWords
      [] OTHER -> {}

\* the greatest number of words in the rest of a source
FreeTokens(src) ==
    CASE src.name = "any" -> MaxTokens
      [] src.name = "labels" -> MaxLabelTokens
      [] src.name \in {"long_text", "long_data"} -> MaxTail
      [] OTHER -> 0

-----------------------------------------------------------------------------
(* Lexer and token access *)

\* Lexer::next: the outcomes <<token or None, lexer after>>
lexer_next(lx) ==
    IF lx.eof THEN {<<None, lx>>}
    ELSE IF lx.n < Len(Opening(lx.src))
         THEN {<<Lex(Opening(lx.src)[lx.n + 1]), [lx EXCEPT !.n = lx.n + 1]>>}
         ELSE {<<None, [lx EXCEPT !.eof = TRUE]>>}
              \cup {<<Lex(w), [lx EXCEPT !.n = lx.n + 1]>> :
                      w \in IF lx.n < Len(Opening(lx.src)) + FreeTokens(lx.src)
                            THEN Vocabulary(lx.src) ELSE {}}

\* Lexer::span: the place of the last token lexed
span(lx) == IF lx.eof THEN lx.n + 1 ELSE lx.n

Taken(t, pk, lx) == [tok |-> t, peeked |-> pk, lexer |-> lx]

\* next_token_opt returning the peeked token without taking it
next_token_opt_keep(pk, lx) ==
    IF pk # None THEN {Taken(pk, pk, lx)}
    ELSE {Taken(r[1], None, r[2]) : r \in lexer_next(lx)}

\* Parser::next_token_opt
next_token_opt(pk, lx) ==
    IF pk # None THEN {Taken(pk, None, lx)}
    ELSE {Taken(r[1], None, r[2]) : r \in lexer_next(lx)}

\* peek_token lexing a token without keeping it
peek_token_drop(pk, lx) ==
    IF pk # None THEN {Taken(pk, pk, lx)}
    ELSE {Taken(r[1], None, r[2]) : r \in lexer_next(lx)}

\* Parser::peek_token
peek_token(pk, lx) ==
    IF pk # None THEN {Taken(pk, pk, lx)}
    ELSE {Taken(r[1], r[1], r[2]) : r \in lexer_next(lx)}

-----------------------------------------------------------------------------
(* ParseError.  The expected-kind descriptions are the source's strings    *)
(* without their backquotes.                                               *)

InvalidToken(found, expected, sp) ==
    [kind |-> "InvalidToken", found |-> found, expected |-> expected, span |-> sp]
UnexpectedEof(expected) == [kind |-> "UnexpectedEof", expected |-> expected]
DuplicateLabel(name, first, second) ==
    [kind |-> "DuplicateLabel", name |-> name, first |-> first, second |-> second]
InstructionOverflow(what, sp) ==
    [kind |-> "InstructionOverflow", what |-> what, span |-> sp]
DataOverflow(what, sp) == [kind |-> "DataOverflow", what |-> what, span |-> sp]
InvalidNumber(v, sp) == [kind |-> "InvalidNumber", val |-> v, span |-> sp]
UnknownLabel(name) == [kind |-> "UnknownLabel", name |-> name]

\* the tokens a call of next_token_opt took
Toks(r) == IF r.tok = None THEN <<>> ELSE <<r.tok>>

\* Result<_, ParseError> of a parsing function, with the parser's token state after
\* it and the tokens it took
Ok(v, r, toks) ==
    [ok |-> TRUE, val |-> v, peeked |-> r.peeked, lexer |-> r.lexer, toks |-> toks]
Err(e, r, toks) ==
    [ok |-> FALSE, err |-> e, peeked |-> r.peeked, lexer |-> r.lexer, toks |-> toks]

\* Parser::parse_label
parse_label(pk, lx) ==
    {IF r.tok = None THEN Err(UnexpectedEof("expected a label"), r, Toks(r))
     ELSE IF r.tok.kind = "LabelIdent" THEN Ok(r.tok.name, r, Toks(r))
     ELSE Err(InvalidToken(to_string(r.tok), "expected a label", span(r.lexer)),
              r, Toks(r))
       : r \in next_token_opt(pk, lx)}

I8Min == -128
I8Max == 127

\* a truncating cast, i as i8, in place of the checked conversion
i8_wrapping_from(i) == [ok |-> TRUE, val |-> ((i + 128) % 256) - 128]

\* i8::try_from(i16)
i8_try_from(i) == IF i >= I8Min /\ i <= I8Max THEN [ok |-> TRUE, val |-> i] ELSE [ok |-> FALSE]

\* Parser::parse_immediate
parse_immediate(pk, lx) ==
    {IF r.tok = None THEN Err(UnexpectedEof("expected an integer"), r, Toks(r))
     ELSE IF r.tok.kind = "NumLiteral"
          THEN IF i8_try_from(r.tok.val).ok
               THEN Ok(i8_try_from(r.tok.val).val, r, Toks(r))
               ELSE Err(InvalidNumber(r.tok.val, span(r.lexer)), r, Toks(r))
     ELSE Err(InvalidToken(to_string(r.tok), "expected an integer", span(r.lexer)),
              r, Toks(r))
       : r \in next_token_opt(pk, lx)}

\* parse_number taking whatever follows `.number` as a value, 0 if it is no literal
parse_number_lenient(pk, lx) ==
    UNION {IF r.tok = None
           THEN {Err(UnexpectedEof("expected .number"), r, Toks(r))}
           ELSE {IF q.tok = None
                 THEN Err(UnexpectedEof("expected an integer"), q, Toks(r) \o Toks(q))
                 ELSE Ok(IF q.tok.kind = "NumLiteral" THEN q.tok.val ELSE 0,
                         q, Toks(r) \o Toks(q))
                   : q \in next_token_opt(r.peeked, r.lexer)}
             : r \in next_token_opt(pk, lx)}

\* Parser::parse_number
parse_number(pk, lx) ==
    UNION {IF r.tok = None
           THEN {Err(UnexpectedEof("expected .number"), r, Toks(r))}
           ELSE IF r.tok.kind = "Number"
                THEN {IF q.tok = None
                      THEN Err(UnexpectedEof("expected an integer"), q, Toks(r) \o Toks(q))
                      ELSE IF q.tok.kind = "NumLiteral"
                           THEN Ok(q.tok.val, q, Toks(r) \o Toks(q))
                           ELSE Err(InvalidToken(to_string(q.tok), "expected an integer",
                                                 span(q.lexer)), q, Toks(r) \o Toks(q))
                        : q \in next_token_opt(r.peeked, r.lexer)}
                ELSE {Err(InvalidToken(to_string(r.tok), "expected .number",
                                       span(r.lexer)), r, Toks(r))}
             : r \in next_token_opt(pk, lx)}

-----------------------------------------------------------------------------
(* Instructions and the streams *)

\* enum Instruction: a label operand, an immediate operand, or none
LabelInstr(op, label) == [op |-> op, label |-> label]
ImmInstr(op, i) == [op |-> op, imm |-> i]
BareInstr(op) == [op |-> op]

\* enum AddressedInstruction
AddrInstr(op, a) == [op |-> op, addr |-> a]

AluRegOps == {"Add", "Subtract", "Multiply", "Divide", "Remainder", "And"}
ImmediateOps == {"AddImmediate", "SubtractImmediate", "MultiplyImmediate",
                 "DivideImmediate", "RemainderImmediate", "AndImmediate", "Shift"}

\* a conversion to seven bits
U7(n) == n % 128

\* as u8
U8(n) == n % 256

\* current_text counting the instruction about to be parsed
current_text_next(txt) == U8(Len(txt) + 1)

\* Parser::current_text
current_text(txt) == U8(Len(txt))

\* Parser::current_data
current_data(dat) == U8(Len(dat))

\* add_instr refusing one entry early
add_instr_early(txt, ins, lx) ==
    IF Len(txt) = StreamCeiling - 1
    THEN [ok |-> FALSE, err |-> InstructionOverflow(ins, span(lx)), text |-> txt]
    ELSE [ok |-> TRUE, text |-> Append(txt, ins)]

\* Parser::add_instr
add_instr(txt, ins, lx) ==
    IF Len(txt) = StreamCeiling
    THEN [ok |-> FALSE, err |-> InstructionOverflow(ins, span(lx)), text |-> txt]
    ELSE [ok |-> TRUE, text |-> Append(txt, ins)]

\* add_data without its ceiling
add_data_unchecked(dat, v, lx) == [ok |-> TRUE, data |-> Append(dat, v)]

\* Parser::add_data
add_data(dat, v, lx) ==
    IF Len(dat) = StreamCeiling
    THEN [ok |-> FALSE, err |-> DataOverflow(v, span(lx)), data |-> dat]
    ELSE [ok |-> TRUE, data |-> Append(dat, v)]

\* HashMap::insert
Insert(labels, name, entry) ==
    [n \in DOMAIN labels \cup {name} |-> IF n = name THEN entry ELSE labels[n]]

NoLabels == [n \in {} |-> [loc |-> 0, span |-> 0]]

\* a lookup that never finds the name
contains_key_never(labels, name) == FALSE

\* HashMap::contains_key
contains_key(labels, name) == name \in DOMAIN labels

\* Parser::add_text_label
add_text_label(pk, lx, labels, txt) ==
    {IF ~l.ok THEN l @@ [labels |-> labels]
     ELSE IF contains_key(labels, l.val)
          THEN Err(DuplicateLabel(l.val, labels[l.val].span, span(l.lexer)),
                   l, l.toks) @@ [labels |-> labels]
          ELSE l @@ [labels |-> Insert(labels, l.val,
                                     [loc |-> current_text(txt), span |-> span(l.lexer)])]
       : l \in parse_label(pk, lx)}

\* Parser::add_data_label
add_data_label(pk, lx, labels, dat) ==
    {IF ~l.ok THEN l @@ [labels |-> labels]
     ELSE IF contains_key(labels, l.val)
          THEN Err(DuplicateLabel(l.val, labels[l.val].span, span(l.lexer)),
                   l, l.toks) @@ [labels |-> labels]
          ELSE l @@ [labels |-> Insert(labels, l.val,
                                     [loc |-> current_data(dat), span |-> span(l.lexer)])]
       : l \in parse_label(pk, lx)}

\* the match of parse_immediate_instr: Token -> Instruction
ImmediateInstr(kind, ival) ==
    CASE kind = "AddImmediate" -> ImmInstr("AddImmediate", ival)
      [] kind = "SubtractImmediate" -> ImmInstr("SubtractImmediate", ival)
      [] kind = "MultiplyImmediate" -> ImmInstr("MultiplyImmediate", ival)
      [] kind = "DivideImmediate" -> ImmInstr("DivideImmediate", ival)
      [] kind = "RemainderImmediate" -> ImmInstr("RemainderImmediate", ival)
      [] kind = "AndImmediate" -> ImmInstr("AndImmediate", ival)
      [] kind = "Shift" -> ImmInstr("Shift", ival)

\* the match of parse_alu_instr: Token -> Instruction
AluInstr(kind, label) ==
    CASE kind = "Add" -> LabelInstr("Add", label)
      [] kind = "Subtract" -> LabelInstr("Subtract", label)
      [] kind = "Multiply" -> LabelInstr("Multiply", label)
      [] kind = "Divide" -> LabelInstr("Divide", label)
      [] kind = "Remainder" -> LabelInstr("Remainder", label)
      [] kind = "And" -> LabelInstr("And", label)

\* an instruction whose operand could not be parsed dropped, the parser going on
AppendedLenient(r, txt, ins) ==
    IF ~r.ok
    THEN [ok |-> TRUE, text |-> txt, peeked |-> r.peeked, lexer |-> r.lexer,
          toks |-> r.toks]
    ELSE add_instr(txt, ins, r.lexer)
         @@ [peeked |-> r.peeked, lexer |-> r.lexer, toks |-> r.toks]

\* an operand parsed (or not) and the instruction appended (or not)
Appended(r, txt, ins) ==
    IF ~r.ok THEN r @@ [text |-> txt]
    ELSE add_instr(txt, ins, r.lexer)
         @@ [peeked |-> r.peeked, lexer |-> r.lexer, toks |-> r.toks]

\* Parser::parse_immediate_instr
parse_immediate_instr(kind, pk, lx, txt) ==
    {Appended(r, txt, IF r.ok THEN ImmediateInstr(kind, r.val) ELSE None)
       : r \in parse_immediate(pk, lx)}

\* Parser::parse_alu_instr
parse_alu_instr(kind, pk, lx, txt) ==
    {Appended(r, txt, IF r.ok THEN AluInstr(kind, r.val) ELSE None)
       : r \in parse_label(pk, lx)}

\* the arms of parse_text that read a label and append: beqz, br, stor
parse_label_instr(op, pk, lx, txt) ==
    {Appended(r, txt, IF r.ok THEN LabelInstr(op, r.val) ELSE None)
       : r \in parse_label(pk, lx)}

-----------------------------------------------------------------------------
(* Encoder (instructions.rs) *)

\* AddressedInstruction::opcode
opcode(i) ==
    CASE i.op = "NoOp" -> 0
      [] i.op \in {"AddImmediate", "SubtractImmediate", "MultiplyImmediate",
                   "DivideImmediate", "AndImmediate", "RemainderImmediate", "Shift"} -> 1
      [] i.op \in {"Add", "Subtract", "Multiply", "Divide", "Remainder", "And"} -> 2
      [] i.op = "ClearAc" -> 3
      [] i.op = "Store" -> 4
      [] i.op = "BranchZero" -> 5
      [] i.op = "Branch" -> 6

\* alu_op with the codes of Remainder and And exchanged
alu_op_swapped(i) ==
    CASE i.op \in {"NoOp", "ClearAc", "Store", "BranchZero", "Branch"} -> 0
      [] i.op \in {"AddImmediate", "Add"} -> 0
      [] i.op \in {"SubtractImmediate", "Subtract"} -> 1
      [] i.op \in {"MultiplyImmediate", "Multiply"} -> 2
      [] i.op \in {"DivideImmediate", "Divide"} -> 3
      [] i.op \in {"RemainderImmediate", "Remainder"} -> 5
      [] i.op \in {"AndImmediate", "And"} -> 4
      [] i.op = "Shift" -> 6

\* AddressedInstruction::alu_op
alu_op(i) ==
    CASE i.op \in {"NoOp", "ClearAc", "Store", "BranchZero", "Branch"} -> 0
      [] i.op \in {"AddImmediate", "Add"} -> 0
      [] i.op \in {"SubtractImmediate", "Subtract"} -> 1
      [] i.op \in {"MultiplyImmediate", "Multiply"} -> 2
      [] i.op \in {"DivideImmediate", "Divide"} -> 3
      [] i.op \in {"RemainderImmediate", "Remainder"} -> 4
      [] i.op \in {"AndImmediate", "And"} -> 5
      [] i.op = "Shift" -> 6

\* i8 as u8
i8_as_u8(i) == IF i < 0 THEN i + 256 ELSE i

\* AddressedInstruction::value
value(i) ==
    CASE i.op \in {"NoOp", "ClearAc"} -> 0
      [] i.op \in {"AddImmediate", "SubtractImmediate", "MultiplyImmediate",
                   "DivideImmediate", "AndImmediate", "RemainderImmediate", "Shift"}
           -> i8_as_u8(i.imm)
      [] i.op \in {"Add", "Subtract", "Multiply", "Divide", "And", "Store", "Remainder",
                   "Branch", "BranchZero"} -> i.addr

\* the opcode shifted by three bits only
shl3_u8(b) == U8(b * 8)

\* u8 << 4
shl4_u8(b) == U8(b * 16)

\* u8 | u8, bit by bit
RECURSIVE bitor(_, _)
bitor(a, b) ==
    IF a = 0 /\ b = 0 THEN 0
    ELSE (IF a % 2 = 1 \/ b % 2 = 1 THEN 1 ELSE 0) + 2 * bitor(a \div 2, b \div 2)

\* AddressedInstruction::bytes
bytes(i) == <<bitor(shl4_u8(opcode(i)), alu_op(i)), value(i)>>

\* AddressedInstruction::hex_string: the two bytes it formats
hex_string(i) == bytes(i)

\* the bytes of the word in little-endian order
to_le_bytes(v) ==
    LET u == IF v < 0 THEN v + 65536 ELSE v IN <<u % 256, u \div 256>>

\* i16::to_be_bytes
to_be_bytes(v) ==
    LET u == IF v < 0 THEN v + 65536 ELSE v IN <<u \div 256, u % 256>>

\* the pieces joined last first
RECURSIVE ConcatReversed(_)
ConcatReversed(ss) == IF ss = <<>> THEN <<>> ELSE ConcatReversed(Tail(ss)) \o Head(ss)

\* the pieces of a Vec joined by extend, in order
RECURSIVE Concat(_)
Concat(ss) == IF ss = <<>> THEN <<>> ELSE Head(ss) \o Concat(Tail(ss))

\* AddressedProgram::assemble_text
assemble_text(prog) == Concat([k \in 1..Len(prog.text) |-> bytes(prog.text[k])])

\* AddressedProgram::data_bytes
data_bytes(prog) == Concat([k \in 1..Len(prog.data) |-> to_be_bytes(prog.data[k])])

-----------------------------------------------------------------------------
(* Addressing pass *)

\* Parser::text_label_address
text_label_address(labels, label) ==
    IF label \in DOMAIN labels THEN [some |-> TRUE, val |-> labels[label].loc]
    ELSE [some |-> FALSE]

\* data_label_address looking the label up in the text table
data_label_address_text(labels, label) == text_label_address(text_labels, label)

\* Parser::data_label_address
data_label_address(labels, label) ==
    IF label \in DOMAIN labels THEN [some |-> TRUE, val |-> labels[label].loc]
    ELSE [some |-> FALSE]

\* .ok_or_else(|| UnknownLabel(label))? and the constructor of the arm
Resolved(op, found, label) ==
    IF found.some THEN [ok |-> TRUE, val |-> AddrInstr(op, found.val)]
    ELSE [ok |-> FALSE, err |-> UnknownLabel(label)]

\* the match of address_program, one arm per Instruction variant
address_instr(ins, tl, dl) ==
    CASE ins.op = "Add" -> Resolved("Add", data_label_address(dl, ins.label), ins.label)
      [] ins.op = "Subtract" ->
            Resolved("Subtract", data_label_address(dl, ins.label), ins.label)
      [] ins.op = "Multiply" ->
            Resolved("Multiply", data_label_address(dl, ins.label), ins.label)
      [] ins.op = "Divide" ->
            Resolved("Divide", data_label_address(dl, ins.label), ins.label)
      [] ins.op = "Remainder" ->
            Resolved("Remainder", data_label_address(dl, ins.label), ins.label)
      [] ins.op = "And" -> Resolved("And", data_label_address(dl, ins.label), ins.label)
      [] ins.op = "BranchZero" ->
            Resolved("BranchZero", text_label_address(tl, ins.label), ins.label)
      [] ins.op = "Branch" ->
            Resolved("Branch", text_label_address(tl, ins.label), ins.label)
      [] ins.op = "Store" ->
            Resolved("Store", data_label_address(dl, ins.label), ins.label)
      [] ins.op = "AddImmediate" -> [ok |-> TRUE, val |-> ImmInstr("AddImmediate", ins.imm)]
      [] ins.op = "SubtractImmediate" ->
            [ok |-> TRUE, val |-> ImmInstr("SubtractImmediate", ins.imm)]
      [] ins.op = "MultiplyImmediate" ->
            [ok |-> TRUE, val |-> ImmInstr("MultiplyImmediate", ins.imm)]
      [] ins.op = "DivideImmediate" ->
            [ok |-> TRUE, val |-> ImmInstr("DivideImmediate", ins.imm)]
      [] ins.op = "RemainderImmediate" ->
            [ok |-> TRUE, val |-> ImmInstr("RemainderImmediate", ins.imm)]
      [] ins.op = "Shift" -> [ok |-> TRUE, val |-> ImmInstr("Shift", ins.imm)]
      [] ins.op = "AndImmediate" -> [ok |-> TRUE, val |-> ImmInstr("AndImmediate", ins.imm)]
      [] ins.op = "ClearAc" -> [ok |-> TRUE, val |-> BareInstr("ClearAc")]
      [] ins.op = "NoOp" -> [ok |-> TRUE, val |-> BareInstr("NoOp")]

\* the loop reporting the last unknown label instead of stopping at the first
address_from_last(k, acc, txt, tl, dl) ==
    LET res == [j \in k..Len(txt) |-> address_instr(txt[j], tl, dl)]
        bad == {j \in k..Len(txt) : ~res[j].ok}
    IN IF bad = {}
       THEN [ok |-> TRUE, text |-> acc \o [j \in 1..(Len(txt) - k + 1) |-> res[j + k - 1].val]]
       ELSE [ok |-> FALSE, err |-> res[CHOOSE j \in bad : \A i \in bad : i <= j].err]

\* the loop of address_program from entry k on, acc being the Vec built so far
RECURSIVE address_from(_, _, _, _, _)
address_from(k, acc, txt, tl, dl) ==
    IF k > Len(txt) THEN [ok |-> TRUE, text |-> acc]
    ELSE LET a == address_instr(txt[k], tl, dl)
         IN IF a.ok THEN address_from(k + 1, Append(acc, a.val), txt, tl, dl)
            ELSE [ok |-> FALSE, err |-> a.err]

\* Parser::address_program
address_program(txt, dat, tl, dl) ==
    LET r == address_from(1, <<>>, txt, tl, dl)
    IN IF r.ok THEN [ok |-> TRUE, val |-> [text |-> r.text, data |-> dat]]
       ELSE [ok |-> FALSE, err |-> r.err]

-----------------------------------------------------------------------------
(* Actions of main and of the parser *)

NoFile == [kind |-> "None"]
File(lines) == [kind |-> "File", header |-> "v2.0 raw", lines |-> lines]

\* Parser::new over one of the sources; main before Parser::parse
Init ==
    /\ lexer \in {[src |-> s, n |-> 0, eof |-> FALSE] : s \in Sources}
    /\ peeked = None
    /\ text = <<>>
    /\ data = <<>>
    /\ text_labels = NoLabels
    /\ data_labels = NoLabels
    /\ numbers = <<>>
    /\ pc = "parse_input"
    /\ err = None
    /\ addressed = None
    /\ data_outfile = NoFile
    /\ text_outfile = NoFile
    /\ text_len_at_def = [n \in {} |-> 0]
    /\ taken = <<>>
    /\ instr = None
    /\ encoded = None

\* a ParseError is recorded and the run goes on with what was parsed
FailSoft(e) == pc' = "parsed" /\ err' = e

\* a ParseError reaches main's unwrap
Fail(e) == pc' = "panicked" /\ err' = e

Continue(at) == pc' = at /\ err' = err

\* a step that takes one token and changes neither stream nor table
TokenStep(t) ==
    /\ lexer' = t.lexer
    /\ peeked' = t.peeked
    /\ taken' = Toks(t)
    /\ UNCHANGED <<text, data, text_labels, data_labels, numbers, text_len_at_def>>
    /\ UNCHANGED <<outVars, encVars>>

\* parse_input taking a first token that is no section marker as the start of
\* the text section
ParseInputLenient ==
    /\ pc = "parse_input"
    /\ \E t \in next_token_opt(peeked, lexer) :
         /\ TokenStep(t)
         /\ IF t.tok = None THEN Fail(UnexpectedEof("expected .text or .data"))
            ELSE IF t.tok.kind = "Data" THEN Continue("parse_data")
            ELSE Continue("parse_text")

\* Parser::parse_input
ParseInput ==
    /\ pc = "parse_input"
    /\ \E t \in next_token_opt(peeked, lexer) :
         /\ TokenStep(t)
         /\ IF t.tok = None THEN Fail(UnexpectedEof("expected .text or .data"))
            ELSE IF t.tok.kind = "Text" THEN Continue("parse_text")
            ELSE IF t.tok.kind = "Data" THEN Continue("parse_data")
            ELSE Fail(InvalidToken(to_string(t.tok), "expected .text or .data",
                                   span(t.lexer)))

\* parse_text: Some(Token::Label) => self.add_text_label()?
TextLabel ==
    /\ pc = "parse_text"
    /\ \E t \in next_token_opt(peeked, lexer) :
         /\ t.tok.kind = "Label"
         /\ \E r \in add_text_label(t.peeked, t.lexer, text_labels, text) :
              /\ lexer' = r.lexer
              /\ peeked' = r.peeked
              /\ taken' = Toks(t) \o r.toks
              /\ text_labels' = r.labels
              /\ IF r.ok
                 THEN /\ Continue("parse_text")
                      /\ text_len_at_def' =
                            [n \in DOMAIN text_len_at_def \cup {r.val} |->
                                IF n = r.val THEN Len(text) ELSE text_len_at_def[n]]
                 ELSE /\ Fail(r.err)
                      /\ UNCHANGED text_len_at_def
    /\ UNCHANGED <<text, data, data_labels, numbers>>
    /\ UNCHANGED <<outVars, encVars>>

\* the switch to the data section starting a new data stream
TextToDataFresh ==
    /\ pc = "parse_text"
    /\ \E t \in next_token_opt(peeked, lexer) :
         /\ t.tok.kind = "Data"
         /\ lexer' = t.lexer
         /\ peeked' = t.peeked
         /\ taken' = Toks(t)
    /\ data' = <<>>
    /\ UNCHANGED <<text, text_labels, data_labels, numbers, text_len_at_def>>
    /\ UNCHANGED <<outVars, encVars>>
    /\ Continue("parse_data")

\* parse_text: Some(Token::Data) => return self.parse_data()
TextToData ==
    /\ pc = "parse_text"
    /\ \E t \in next_token_opt(peeked, lexer) :
         /\ t.tok.kind = "Data"
         /\ TokenStep(t)
    /\ Continue("parse_data")

\* the end of an arm of parse_text that appends an instruction, t being the
\* mnemonic taken and r the operand parsed and the append
AppendStep(t, r) ==
    /\ lexer' = r.lexer
    /\ peeked' = r.peeked
    /\ taken' = Toks(t) \o r.toks
    /\ text' = r.text
    /\ IF r.ok THEN Continue("parse_text") ELSE Fail(r.err)
    /\ UNCHANGED <<data, text_labels, data_labels, numbers, text_len_at_def>>
    /\ UNCHANGED <<outVars, encVars>>

\* parse_text: add | sub | mul | div | rem | and => self.parse_alu_instr(t)?
TextAluInstr ==
    /\ pc = "parse_text"
    /\ \E t \in next_token_opt(peeked, lexer) :
         /\ t.tok.kind \in AluRegOps
         /\ \E r \in parse_alu_instr(t.tok.kind, t.peeked, t.lexer, text) :
              AppendStep(t, r)

\* parse_text: addi | subi | muli | divi | remi | andi | shift
\*             => self.parse_immediate_instr(t)?
TextImmediateInstr ==
    /\ pc = "parse_text"
    /\ \E t \in next_token_opt(peeked, lexer) :
         /\ t.tok.kind \in ImmediateOps
         /\ \E r \in parse_immediate_instr(t.tok.kind, t.peeked, t.lexer, text) :
              AppendStep(t, r)

\* parse_text: Some(Token::BranchZero)
TextBranchZero ==
    /\ pc = "parse_text"
    /\ \E t \in next_token_opt(peeked, lexer) :
         /\ t.tok.kind = "BranchZero"
         /\ \E r \in parse_label_instr("BranchZero", t.peeked, t.lexer, text) :
              AppendStep(t, r)

\* parse_text: Some(Token::Branch)
TextBranch ==
    /\ pc = "parse_text"
    /\ \E t \in next_token_opt(peeked, lexer) :
         /\ t.tok.kind = "Branch"
         /\ \E r \in parse_label_instr("Branch", t.peeked, t.lexer, text) :
              AppendStep(t, r)

\* an arm of parse_text that appends an instruction without operand
Bare(t, op) ==
    add_instr(text, BareInstr(op), t.lexer)
    @@ [peeked |-> t.peeked, lexer |-> t.lexer, toks |-> <<>>]

\* parse_text: Some(Token::ClearAc)
TextClearAc ==
    /\ pc = "parse_text"
    /\ \E t \in next_token_opt(peeked, lexer) :
         /\ t.tok.kind = "ClearAc"
         /\ AppendStep(t, Bare(t, "ClearAc"))

\* parse_text: Some(Token::Store)
TextStore ==
    /\ pc = "parse_text"
    /\ \E t \in next_token_opt(peeked, lexer) :
         /\ t.tok.kind = "Store"
         /\ \E r \in parse_label_instr("Store", t.peeked, t.lexer, text) :
              AppendStep(t, r)

\* parse_text: Some(Token::NoOp)
TextNoOp ==
    /\ pc = "parse_text"
    /\ \E t \in next_token_opt(peeked, lexer) :
         /\ t.tok.kind = "NoOp"
         /\ AppendStep(t, Bare(t, "NoOp"))

\* the tokens parse_text has an arm for before Some(other)
TextArmKinds ==
    {"Label", "Data", "BranchZero", "Branch", "ClearAc", "Store", "NoOp"}
    \cup AluRegOps \cup ImmediateOps

\* the last arm of parse_text taking `.text` as a re-entry of the text section
TextInvalidTokenReentry ==
    /\ pc = "parse_text"
    /\ \E t \in next_token_opt(peeked, lexer) :
         /\ t.tok # None
         /\ t.tok.kind \notin TextArmKinds
         /\ TokenStep(t)
         /\ IF t.tok.kind = "Text" THEN Continue("parse_text")
            ELSE Fail(InvalidToken(to_string(t.tok), "expected mnemonic, label, or .data",
                                   span(t.lexer)))

\* parse_text: Some(other) => return Err(InvalidToken)
TextInvalidToken ==
    /\ pc = "parse_text"
    /\ \E t \in next_token_opt(peeked, lexer) :
         /\ t.tok # None
         /\ t.tok.kind \notin TextArmKinds
         /\ TokenStep(t)
         /\ Fail(InvalidToken(to_string(t.tok), "expected mnemonic, label, or .data",
                              span(t.lexer)))

\* parse_text: None => break, and Parser::parse returns Ok
TextEof ==
    /\ pc = "parse_text"
    /\ \E t \in next_token_opt(peeked, lexer) :
         /\ t.tok = None
         /\ TokenStep(t)
    /\ Continue("parsed")

\* parse_data: Some(Token::Label) => self.add_data_label()?, then parse_number_list
DataLabel ==
    /\ pc = "parse_data"
    /\ \E t \in next_token_opt(peeked, lexer) :
         /\ t.tok.kind = "Label"
         /\ \E r \in add_data_label(t.peeked, t.lexer, data_labels, data) :
              /\ lexer' = r.lexer
              /\ peeked' = r.peeked
              /\ taken' = Toks(t) \o r.toks
              /\ data_labels' = r.labels
              /\ IF r.ok THEN Continue("parse_number_list") ELSE Fail(r.err)
    /\ numbers' = <<>>
    /\ UNCHANGED <<text, data, text_labels, text_len_at_def>>
    /\ UNCHANGED <<outVars, encVars>>

\* parse_number_list: the peeked token is Number => numbers.push(self.parse_number()?)
NumberListNext ==
    /\ pc = "parse_number_list"
    /\ \E p \in peek_token(peeked, lexer) :
         /\ p.tok.kind = "Number"
         /\ \E r \in parse_number(p.peeked, p.lexer) :
              /\ lexer' = r.lexer
              /\ peeked' = r.peeked
              /\ taken' = r.toks
              /\ IF r.ok
                 THEN /\ numbers' = Append(numbers, r.val)
                      /\ Continue("parse_number_list")
                 ELSE /\ numbers' = <<>>
                      /\ Fail(r.err)
    /\ UNCHANGED <<text, data, text_labels, data_labels, text_len_at_def>>
    /\ UNCHANGED <<outVars, encVars>>

\* the numbers of a run appended last first
RECURSIVE add_all_reversed(_, _, _)
add_all_reversed(dat, nums, lx) ==
    IF nums = <<>> THEN [ok |-> TRUE, data |-> dat]
    ELSE LET a == add_data(dat, nums[Len(nums)], lx)
         IN IF a.ok THEN add_all_reversed(a.data, SubSeq(nums, 1, Len(nums) - 1), lx)
            ELSE a

\* for number in numbers { self.add_data(number)? }
RECURSIVE add_all(_, _, _)
add_all(dat, nums, lx) ==
    IF nums = <<>> THEN [ok |-> TRUE, data |-> dat]
    ELSE LET a == add_data(dat, Head(nums), lx)
         IN IF a.ok THEN add_all(a.data, Tail(nums), lx) ELSE a

\* parse_number_list: the peeked token is not Number => the list is returned and
\* parse_data appends its numbers
NumberListEnd ==
    /\ pc = "parse_number_list"
    /\ \E p \in peek_token(peeked, lexer) :
         /\ p.tok.kind # "Number"
         /\ lexer' = p.lexer
         /\ peeked' = p.peeked
         /\ LET a == add_all(data, numbers, p.lexer)
            IN /\ data' = a.data
               /\ IF a.ok THEN Continue("parse_data") ELSE Fail(a.err)
    /\ taken' = <<>>
    /\ numbers' = <<>>
    /\ UNCHANGED <<text, text_labels, data_labels, text_len_at_def>>
    /\ UNCHANGED <<outVars, encVars>>

\* parse_data: Some(Token::Text) => return self.parse_text()
DataToText ==
    /\ pc = "parse_data"
    /\ \E t \in next_token_opt(peeked, lexer) :
         /\ t.tok.kind = "Text"
         /\ TokenStep(t)
    /\ Continue("parse_text")

\* parse_data: Some(other) => return Err(InvalidToken)
DataInvalidToken ==
    /\ pc = "parse_data"
    /\ \E t \in next_token_opt(peeked, lexer) :
         /\ t.tok # None
         /\ t.tok.kind \notin {"Label", "Text"}
         /\ TokenStep(t)
         /\ Fail(InvalidToken(to_string(t.tok), "expected .label", span(t.lexer)))

\* parse_data: None => break, and Parser::parse returns Ok
DataEof ==
    /\ pc = "parse_data"
    /\ \E t \in next_token_opt(peeked, lexer) :
         /\ t.tok = None
         /\ TokenStep(t)
    /\ Continue("parsed")

\* address_program moving the text stream out of the parser
AddressProgramDraining ==
    /\ pc = "parsed"
    /\ LET r == address_program(text, data, text_labels, data_labels)
       IN IF r.ok THEN addressed' = r.val /\ Continue("addressed")
          ELSE addressed' = addressed /\ Fail(r.err)
    /\ taken' = <<>>
    /\ text' = <<>>
    /\ UNCHANGED <<lexer, peeked, data, text_labels, data_labels, numbers>>
    /\ UNCHANGED <<text_len_at_def, data_outfile, text_outfile, encVars>>

\* main: parser.address_program().unwrap()
AddressProgram ==
    /\ pc = "parsed"
    /\ LET r == address_program(text, data, text_labels, data_labels)
       IN IF r.ok THEN addressed' = r.val /\ Continue("addressed")
          ELSE addressed' = addressed /\ Fail(r.err)
    /\ taken' = <<>>
    /\ UNCHANGED <<parsedVars, text_len_at_def, data_outfile, text_outfile, encVars>>

\* main: the data output file is created and the data bytes written
WriteDataFile ==
    /\ pc = "addressed"
    /\ data_outfile' = File(data_bytes(addressed))
    /\ Continue("data_written")
    /\ UNCHANGED <<parserVars, taken, addressed, text_outfile, encVars>>

\* main: the text output file is created and each instruction's hex_string written
WriteTextFile ==
    /\ pc = "data_written"
    /\ text_outfile' = File([k \in 1..Len(addressed.text) |-> hex_string(addressed.text[k])])
    /\ Continue("done")
    /\ UNCHANGED <<parserVars, taken, addressed, data_outfile, encVars>>

Next ==
    \/ ParseInput
    \/ TextLabel
    \/ TextToData
    \/ TextAluInstr
    \/ TextImmediateInstr
    \/ TextBranchZero
    \/ TextBranch
    \/ TextClearAc
    \/ TextStore
    \/ TextNoOp
    \/ TextInvalidToken
    \/ TextEof
    \/ DataLabel
    \/ NumberListNext
    \/ NumberListEnd
    \/ DataToText
    \/ DataInvalidToken
    \/ DataEof
    \/ AddressProgram
    \/ WriteDataFile
    \/ WriteTextFile

Spec == Init /\ [][Next]_vars

-----------------------------------------------------------------------------
(* The encoder applied to every resolved instruction *)

U8Max == 255

AddressedInstructions ==
    {AddrInstr(op, a) : op \in AluRegOps \cup {"Store", "BranchZero", "Branch"},
                        a \in 0..U8Max}
    \cup {ImmInstr(op, i) : op \in ImmediateOps, i \in I8Min..I8Max}
    \cup {BareInstr("ClearAc"), BareInstr("NoOp")}

InitEncode ==
    /\ lexer = [src |-> Src("scenario", ""), n |-> 0, eof |-> FALSE]
    /\ peeked = None
    /\ text = <<>>
    /\ data = <<>>
    /\ text_labels = NoLabels
    /\ data_labels = NoLabels
    /\ numbers = <<>>
    /\ pc = "encode"
    /\ err = None
    /\ addressed = None
    /\ data_outfile = NoFile
    /\ text_outfile = NoFile
    /\ text_len_at_def = [n \in {} |-> 0]
    /\ taken = <<>>
    /\ instr \in AddressedInstructions
    /\ encoded = None

\* opcode(), alu_op(), value() and bytes() called on instr
EncodeInstr ==
    /\ pc = "encode"
    /\ encoded' = [kind |-> "Encoded", opcode |-> opcode(instr), alu_op |-> alu_op(instr),
                   value |-> value(instr), bytes |-> bytes(instr)]
    /\ pc' = "encoded"
    /\ UNCHANGED <<parserVars, taken, err, outVars, instr>>

NextEncode == EncodeInstr

SpecEncode == InitEncode /\ [][NextEncode]_vars

-----------------------------------------------------------------------------
(* Properties *)

Addressed == pc \in {"addressed", "data_written", "done"}
BranchOps == {"BranchZero", "Branch"}
DataRefOps == AluRegOps \cup {"Store"}
LabelOps == DataRefOps \cup BranchOps

\* the step took `.label n`
TookLabelDef(toks, n) == toks = <<Tok("Label"), LabelIdent(n)>>

\* C1: once addressing has succeeded, every beqz and br carries as its address the
\* number of instructions the text stream held when its label was defined, whether
\* the label was defined before or after the branch; the source
\* `.text br X noop .label X noop` is addressed and its br carries address 2.
C1_ForwardReferencesResolve ==
    /\ Addressed =>
         \A k \in 1..Len(text) :
            text[k].op \in BranchOps =>
              /\ text[k].label \in DOMAIN text_len_at_def
              /\ addressed.text[k] = AddrInstr(text[k].op, text_len_at_def[text[k].label])
    /\ lexer.src.name = "forward" =>
         /\ pc # "panicked"
         /\ Addressed => addressed.text[1] = AddrInstr("Branch", 2)

\* a branch whose label was defined after it, two instructions into the stream
C1_Witness ==
    /\ Addressed
    /\ \E k \in 1..Len(text) :
         /\ text[k].op \in BranchOps
         /\ text_len_at_def[text[k].label] >= k
         /\ addressed.text[k].addr = 2
    /\ lexer.src.name = "forward"

\* C2: a step that takes `.label n` while n is in the table of the section being
\* parsed fails with DuplicateLabel(n, span of the first definition, span of this
\* one); a definition stores the span of its name; no step removes or changes an
\* entry of either table.
C2_DuplicateLabelRejected ==
    [][/\ \A n \in Names :
            /\ (pc = "parse_text" /\ TookLabelDef(taken', n) /\ n \in DOMAIN text_labels)
                 => /\ pc' = "panicked"
                    /\ err' = DuplicateLabel(n, text_labels[n].span, lexer'.n)
            /\ (pc = "parse_data" /\ TookLabelDef(taken', n) /\ n \in DOMAIN data_labels)
                 => /\ pc' = "panicked"
                    /\ err' = DuplicateLabel(n, data_labels[n].span, lexer'.n)
            /\ (pc = "parse_text" /\ TookLabelDef(taken', n) /\ n \notin DOMAIN text_labels)
                 => text_labels'[n].span = lexer'.n
            /\ (pc = "parse_data" /\ TookLabelDef(taken', n) /\ n \notin DOMAIN data_labels)
                 => data_labels'[n].span = lexer'.n
       /\ \A n \in DOMAIN text_labels :
            n \in DOMAIN text_labels' /\ text_labels'[n] = text_labels[n]
       /\ \A n \in DOMAIN data_labels :
            n \in DOMAIN data_labels' /\ data_labels'[n] = data_labels[n]
      ]_vars

\* a second definition rejected with other tokens between it and the first
C2_Witness ==
    /\ pc = "panicked"
    /\ err.kind = "DuplicateLabel"
    /\ err.second >= err.first + 3
    /\ err.name \in DOMAIN data_labels
    /\ data_labels[err.name].span = err.first

\* C3: a step that takes `.label n` while n is not in the table of the section
\* being parsed succeeds and inserts n there, whether or not n is in the other
\* table, which it leaves alone; when addressing succeeds, every add, sub, mul, div,
\* rem, and, stor carries the data table's address of its label and every beqz, br
\* the text table's.
C3_IndependentLabelSpaces ==
    [][/\ \A n \in Names :
            /\ (pc = "parse_text" /\ TookLabelDef(taken', n) /\ n \notin DOMAIN text_labels)
                 => /\ pc' = "parse_text"
                    /\ n \in DOMAIN text_labels'
                    /\ data_labels' = data_labels
            /\ (pc = "parse_data" /\ TookLabelDef(taken', n) /\ n \notin DOMAIN data_labels)
                 => /\ pc' = "parse_number_list"
                    /\ n \in DOMAIN data_labels'
                    /\ text_labels' = text_labels
       /\ (pc = "parsed" /\ pc' = "addressed") =>
            \A k \in 1..Len(text) :
               /\ text[k].op \in DataRefOps =>
                    /\ text[k].label \in DOMAIN data_labels
                    /\ addressed'.text[k] =
                         AddrInstr(text[k].op, data_labels[text[k].label].loc)
               /\ text[k].op \in BranchOps =>
                    /\ text[k].label \in DOMAIN text_labels
                    /\ addressed'.text[k] =
                         AddrInstr(text[k].op, text_labels[text[k].label].loc)
      ]_vars

\* an addressed program that refers to a name in both tables at different addresses
C3_Witness ==
    /\ Addressed
    /\ \E k \in 1..Len(text) :
         /\ text[k].op \in LabelOps
         /\ text[k].label \in DOMAIN text_labels \cap DOMAIN data_labels
         /\ text_labels[text[k].label].loc # data_labels[text[k].label].loc

\* the entries of the text stream whose label is not in the mandated table
Missing ==
    {k \in 1..Len(text) :
        \/ text[k].op \in DataRefOps /\ text[k].label \notin DOMAIN data_labels
        \/ text[k].op \in BranchOps /\ text[k].label \notin DOMAIN text_labels}

FirstMissing == CHOOSE k \in Missing : \A j \in Missing : k <= j

\* C4: the step of address_program either fails with UnknownLabel of the first entry,
\* in program order, whose label is not in the table mandated for it, leaving no
\* image, or, when there is no such entry, yields an image with one instruction
\* per entry, of the same kind, immediates and operand-less ones unchanged, and the
\* data words unchanged.
C4_AddressingAllOrNothing ==
    [][pc = "parsed" =>
          IF Missing # {}
          THEN /\ pc' = "panicked"
               /\ err' = UnknownLabel(text[FirstMissing].label)
               /\ addressed' = None
          ELSE /\ pc' = "addressed"
               /\ Len(addressed'.text) = Len(text)
               /\ \A k \in 1..Len(text) :
                    /\ addressed'.text[k].op = text[k].op
                    /\ text[k].op \notin LabelOps => addressed'.text[k] = text[k]
               /\ addressed'.data = data
      ]_vars

\* addressing failed on the first of two unknown labels, a name known only in the
\* other space
C4_Witness ==
    /\ pc = "panicked"
    /\ err.kind = "UnknownLabel"
    /\ Cardinality(Missing) >= 2
    /\ \E k \in Missing : text[k].label # err.name
    /\ \/ err.name \in DOMAIN text_labels
       \/ err.name \in DOMAIN data_labels

ParseEnded == pc \in {"parsed", "addressed", "data_written", "done", "panicked"}

\* v is a signed 8-bit value
FitsI8(v) == -128 <= v /\ v <= 127

\* C5: the source `.text addi -128` (and the same with any other immediate
\* mnemonic) parses, its text stream is the one instruction with immediate -128,
\* and the operand byte of its encoding is 0x80.
C5_NegativeImmediateAccepted ==
    lexer.src.name = "negative" =>
       /\ pc # "panicked"
       /\ ParseEnded => /\ Len(text) = 1
                        /\ text[1].op = KeywordToken(lexer.src.m)
                        /\ text[1].imm = -128
       /\ Addressed => bytes(addressed.text[1])[2] = 128

\* the step took an immediate mnemonic and then a numeric literal
TookImmediate(toks) ==
    /\ Len(toks) = 2
    /\ toks[1].kind \in ImmediateOps
    /\ toks[2].kind = "NumLiteral"

\* C6 as stated: a step that takes an immediate mnemonic and a literal v appends
\* the instruction with immediate v when v fits a signed 8-bit value and fails with
\* InvalidNumber(v, span) when it does not.
C6_ImmediateRangeAsStated ==
    [][(pc = "parse_text" /\ TookImmediate(taken')) =>
          IF FitsI8(taken'[2].val)
          THEN /\ pc' = "parse_text"
               /\ text' = Append(text, ImmInstr(taken'[1].kind, taken'[2].val))
          ELSE /\ pc' = "panicked"
               /\ err' = InvalidNumber(taken'[2].val, lexer'.n)
               /\ text' = text
      ]_vars

\* C6 amended: a step that takes an immediate mnemonic and a literal v fails with
\* InvalidNumber(v, span) when v does not fit a signed 8-bit value; when v fits it
\* appends the instruction with immediate v, whose operand byte is v, if the text
\* stream holds fewer than 255 instructions and fails with InstructionOverflow if
\* it holds 255; the stream is unchanged by a failure and no instruction of the
\* stream ever carries an immediate outside -128..127.
C6_ImmediateRange ==
    [][/\ (pc = "parse_text" /\ TookImmediate(taken')) =>
            IF ~FitsI8(taken'[2].val)
            THEN /\ pc' = "panicked"
                 /\ err' = InvalidNumber(taken'[2].val, lexer'.n)
                 /\ text' = text
            ELSE IF Len(text) < 255
            THEN /\ pc' = "parse_text"
                 /\ text' = Append(text, ImmInstr(taken'[1].kind, taken'[2].val))
                 /\ value(text'[Len(text')]) = taken'[2].val
            ELSE /\ pc' = "panicked"
                 /\ err'.kind = "InstructionOverflow"
                 /\ text' = text
       /\ \A k \in 1..Len(text') :
            text'[k].op \in ImmediateOps => FitsI8(text'[k].imm)
      ]_vars

\* `addi 127` appended
C6_Witness ==
    /\ pc = "parse_text"
    /\ taken = <<Tok("AddImmediate"), NumLiteral(127)>>
    /\ text[Len(text)] = ImmInstr("AddImmediate", 127)
    /\ bytes(text[Len(text)]) = <<16, 127>>

\* the step took the tokens of one whole instruction
TookInstruction(toks) ==
    \/ Len(toks) = 1 /\ toks[1].kind \in {"ClearAc", "NoOp"}
    \/ Len(toks) = 2 /\ toks[1].kind \in LabelOps /\ toks[2].kind = "LabelIdent"
    \/ TookImmediate(toks) /\ FitsI8(toks[2].val)

\* C7: a step of parse_text that has taken a whole instruction appends it when the
\* text stream holds fewer than 255 and fails with InstructionOverflow, the stream
\* unchanged, when it holds 255; the numbers of a run are appended to the data
\* stream one by one while it holds fewer than 255, and the first one met at 255
\* fails with DataOverflow, the stream staying at 255.
C7_OverflowBoundary ==
    [][/\ (pc = "parse_text" /\ TookInstruction(taken')) =>
            IF Len(text) < 255
            THEN /\ pc' = "parse_text"
                 /\ Len(text') = Len(text) + 1
                 /\ SubSeq(text', 1, Len(text)) = text
            ELSE /\ pc' = "panicked"
                 /\ err'.kind = "InstructionOverflow"
                 /\ text' = text
       /\ (pc = "parse_number_list" /\ taken' = <<>>) =>
            IF Len(data) + Len(numbers) <= 255
            THEN /\ pc' = "parse_data"
                 /\ data' = data \o numbers
            ELSE /\ pc' = "panicked"
                 /\ err' = DataOverflow(numbers[255 - Len(data) + 1], span(lexer'))
                 /\ data' = data \o SubSeq(numbers, 1, 255 - Len(data))
      ]_vars

\* the 256th instruction refused
C7_Witness ==
    /\ pc = "panicked"
    /\ err.kind = "InstructionOverflow"
    /\ Len(text) = 255
    /\ TookInstruction(taken)

\* C8: the text stream and the data stream never hold more than 255 entries, in
\* the parser and in the image address_program returns.
C8_StreamsAtMost255 ==
    /\ Len(text) <= 255
    /\ Len(data) <= 255
    /\ addressed # None => Len(addressed.text) <= 255 /\ Len(addressed.data) <= 255

\* a full data stream that refused a value
C8_Witness ==
    /\ pc = "panicked"
    /\ err.kind = "DataOverflow"
    /\ Len(data) = 255

\* C9: the source `.data .label X .number 5 .number 7 .text add X clac` parses and
\* is addressed; X is data address 0, data_bytes is 00 05 00 07 and assemble_text
\* is 20 00 30 00.
C9_EndToEndScenario ==
    lexer.src.name = "scenario" =>
       /\ pc # "panicked"
       /\ Addressed =>
            /\ data_labels["X"].loc = 0
            /\ addressed.text = <<AddrInstr("Add", 0), BareInstr("ClearAc")>>
            /\ data_bytes(addressed) = <<0, 5, 0, 7>>
            /\ assemble_text(addressed) = <<32, 0, 48, 0>>
       /\ data_outfile # NoFile => data_outfile.lines = <<0, 5, 0, 7>>
       /\ text_outfile # NoFile => text_outfile.lines = <<(<<32, 0>>), (<<48, 0>>)>>

\* the scenario assembled and written
C9_Witness ==
    /\ lexer.src.name = "scenario"
    /\ pc = "done"
    /\ Len(addressed.text) = 2
    /\ Len(addressed.data) = 2

\* the encoding table as the specification gives it
TableOpcode(op) ==
    IF op = "NoOp" THEN 0
    ELSE IF op \in ImmediateOps THEN 1
    ELSE IF op \in AluRegOps THEN 2
    ELSE IF op = "ClearAc" THEN 3
    ELSE IF op = "Store" THEN 4
    ELSE IF op = "BranchZero" THEN 5
    ELSE 6

TableAluOp(op) ==
    IF op \in {"Add", "AddImmediate"} THEN 0
    ELSE IF op \in {"Subtract", "SubtractImmediate"} THEN 1
    ELSE IF op \in {"Multiply", "MultiplyImmediate"} THEN 2
    ELSE IF op \in {"Divide", "DivideImmediate"} THEN 3
    ELSE IF op \in {"Remainder", "RemainderImmediate"} THEN 4
    ELSE IF op \in {"And", "AndImmediate"} THEN 5
    ELSE IF op = "Shift" THEN 6
    ELSE 0

TableOperand(i) ==
    IF i.op \in {"NoOp", "ClearAc"} THEN 0
    ELSE IF i.op \in ImmediateOps THEN (i.imm + 256) % 256
    ELSE i.addr

\* C10: for every resolved instruction opcode() and alu_op() are the codes of the
\* table, and bytes() is (opcode * 16 + alu_op, operand), the operand being the
\* address, the immediate mod 256, or 0 for NoOp and ClearAc.
C10_EncodingTable ==
    pc = "encoded" =>
       /\ encoded.opcode = TableOpcode(instr.op)
       /\ encoded.alu_op = TableAluOp(instr.op)
       /\ encoded.value = TableOperand(instr)
       /\ encoded.bytes = <<TableOpcode(instr.op) * 16 + TableAluOp(instr.op),
                            TableOperand(instr)>>

\* `andi -1` encoded as 15 ff
C10_Witness ==
    /\ pc = "encoded"
    /\ instr = ImmInstr("AndImmediate", -1)
    /\ encoded.bytes = <<21, 255>>

\* C11: for every resolved instruction, once encoded, the high nibble of the first
\* byte is its opcode and the low nibble its ALU op, both below 16.
C11_NibbleRoundTrip ==
    pc = "encoded" =>
       /\ encoded.bytes[1] \div 16 = opcode(instr)
       /\ encoded.bytes[1] % 16 = alu_op(instr)
       /\ opcode(instr) \in 0..15
       /\ alu_op(instr) \in 0..15
       /\ encoded.bytes[1] \in 0..255

\* `shift -128` encoded with first byte 0x16: neither nibble is zero
C11_Witness ==
    /\ pc = "encoded"
    /\ instr = ImmInstr("Shift", -128)
    /\ encoded.bytes[1] = 22
    /\ encoded.opcode = 1
    /\ encoded.alu_op = 6

\* the two bytes of a data word, most significant first, in two's complement
WordBytes(v) == <<((v + 65536) % 65536) \div 256, ((v + 65536) % 65536) % 256>>

\* C12: for the image address_program returned, the text serialization has twice
\* as many bytes as the image has instructions and the data serialization twice as
\* many as it has words; bytes 2k and 2k+1 (counting from 0) are the encoding of
\* entry k, for a data word its big-endian two bytes.
C12_SerializationLayout ==
    Addressed =>
       /\ Len(assemble_text(addressed)) = 2 * Len(addressed.text)
       /\ Len(data_bytes(addressed)) = 2 * Len(addressed.data)
       /\ \A k \in 1..Len(addressed.text) :
            SubSeq(assemble_text(addressed), 2 * k - 1, 2 * k) = bytes(addressed.text[k])
       /\ \A k \in 1..Len(addressed.data) :
            SubSeq(data_bytes(addressed), 2 * k - 1, 2 * k) = WordBytes(addressed.data[k])

\* the image of `.data .label X .number 0x1234 .number 32767 .number 5 .text noop
\* clac`: data bytes 12 34 7f ff ..
C12_Witness ==
    /\ Addressed
    /\ Len(addressed.text) >= 2
    /\ Len(addressed.data) >= 2
    /\ addressed.text[1] # addressed.text[2]
    /\ addressed.data[1] # addressed.data[2]
    /\ addressed.data[1] = 4660
    /\ SubSeq(data_bytes(addressed), 1, 4) = <<18, 52, 127, 255>>

\* C13: parse_input takes one token at most; `.text` starts parse_text and `.data`
\* parse_data; the end of input fails with UnexpectedEof and any other token with
\* InvalidToken naming it; whatever the outcome both streams and both label tables
\* are still empty after it.
C13_SectionMarkerFirst ==
    [][pc = "parse_input" =>
          /\ IF taken' = <<>>
             THEN /\ pc' = "panicked"
                  /\ err' = UnexpectedEof("expected .text or .data")
             ELSE /\ Len(taken') = 1
                  /\ IF taken'[1] = Tok("Text") THEN pc' = "parse_text" /\ err' = None
                     ELSE IF taken'[1] = Tok("Data") THEN pc' = "parse_data" /\ err' = None
                     ELSE /\ pc' = "panicked"
                          /\ err' = InvalidToken(to_string(taken'[1]),
                                                 "expected .text or .data", 1)
          /\ text' = <<>>
          /\ data' = <<>>
          /\ text_labels' = NoLabels
          /\ data_labels' = NoLabels
      ]_vars

\* a source that begins with `.number`
C13_Witness ==
    /\ pc = "panicked"
    /\ err = InvalidToken(".number", "expected .text or .data", 1)
    /\ taken = <<Tok("Number")>>
    /\ text = <<>>
    /\ data = <<>>

\* the stream s continues the stream t
Extends(s, t) == Len(s) >= Len(t) /\ SubSeq(s, 1, Len(t)) = t

\* C14: in parse_text `.data` switches to parse_data and in parse_data `.text`
\* switches to parse_text, the switch changing neither stream nor table; no step of
\* the data section changes the text stream or the text table and no step of the
\* text section the data stream or the data table; a stream only grows at its end;
\* the source `.text noop .data .label X .number 5 .text .label Y clac .data .label Y
\* .number 7 .text br Y` parses to the text noop clac br, the data 5 7, text label Y
\* at 1 and data labels X at 0 and Y at 1.
C14_SectionsInterleave ==
    [][/\ (pc = "parse_text" /\ taken' = <<Tok("Data")>>) =>
            /\ pc' = "parse_data"
            /\ <<text', data', text_labels', data_labels'>>
                 = <<text, data, text_labels, data_labels>>
       /\ (pc = "parse_data" /\ taken' = <<Tok("Text")>>) =>
            /\ pc' = "parse_text"
            /\ <<text', data', text_labels', data_labels'>>
                 = <<text, data, text_labels, data_labels>>
       /\ pc \in {"parse_data", "parse_number_list"} =>
            text' = text /\ text_labels' = text_labels
       /\ pc = "parse_text" => data' = data /\ data_labels' = data_labels
       /\ Extends(text', text)
       /\ Extends(data', data)
       /\ lexer.src.name = "interleaved" =>
            /\ pc' # "panicked"
            /\ pc' = "parsed" =>
                 /\ text' = <<BareInstr("NoOp"), BareInstr("ClearAc"),
                              LabelInstr("Branch", "Y")>>
                 /\ data' = <<5, 7>>
                 /\ text_labels'["Y"].loc = 1
                 /\ data_labels'["X"].loc = 0
                 /\ data_labels'["Y"].loc = 1
      ]_vars

\* the second text block of the interleaved source is being parsed, after the first
\* data block
C14_Witness ==
    /\ lexer.src.name = "interleaved"
    /\ pc = "parse_text"
    /\ taken = <<Tok("ClearAc")>>
    /\ text = <<BareInstr("NoOp"), BareInstr("ClearAc")>>
    /\ data = <<5>>

\* C15: an output file is created or written only by a step of main taken after
\* Parser::parse and address_program both returned Ok, so with no ParseError, an
\* image and every label of the text stream known; a run that ended on a ParseError
\* has created no output file and takes no further step.
C15_NoOutputOnFailure ==
    [][/\ (data_outfile' # data_outfile \/ text_outfile' # text_outfile) =>
            /\ pc \in {"addressed", "data_written"}
            /\ err = None
            /\ addressed # None
            /\ Missing = {}
       /\ pc' = "panicked" => data_outfile' = NoFile /\ text_outfile' = NoFile
       /\ pc # "panicked"
      ]_vars

\* a run aborted by address_program, after parsing succeeded, without output
C15_Witness ==
    /\ pc = "panicked"
    /\ err.kind = "UnknownLabel"
    /\ lexer.eof
    /\ Len(text) >= 1
    /\ data_outfile = NoFile
    /\ text_outfile = NoFile

\* the tokens the parser has taken from the token stream: those lexed, less the
\* one held in peeked
Consumed == lexer.n - (IF peeked = None THEN 0 ELSE 1)

\* the order of the steps that take no token
Rank(at) ==
    CASE at \in {"parse_input", "parse_number_list"} -> 0
      [] at \in {"parse_text", "parse_data"} -> 1
      [] at = "parsed" -> 2
      [] at = "addressed" -> 3
      [] at = "data_written" -> 4
      [] at \in {"done", "panicked"} -> 5

Parsing == pc \in {"parse_input", "parse_text", "parse_data", "parse_number_list"}

\* the span a ParseError carries
ErrSpan(e) == IF e.kind = "DuplicateLabel" THEN e.second ELSE e.span

\* the step read one more value of a run
TookNumber(toks) == Len(toks) = 2 /\ toks[1] = Tok("Number") /\ toks[2].kind = "NumLiteral"

\* a step of a terminating run: it takes at least one token or moves the run
\* forward, gives no token back, ends parsing in success only at the end of input
\* with every token taken, and is not taken after a ParseError
TerminatingStep ==
    /\ Consumed' = Consumed + Len(taken')
    /\ Len(taken') >= 1 \/ Rank(pc') > Rank(pc)
    /\ (pc \in {"parse_text", "parse_data"} /\ Parsing') => Len(taken') >= 1
    /\ ~Parsing => taken' = <<>>
    /\ (Parsing /\ pc' = "parsed") =>
         /\ lexer'.eof
         /\ peeked' = None
         /\ lexer'.n >= Len(Opening(lexer'.src))
         /\ err' = None
    /\ pc' = "panicked" <=> err' # None
    /\ err = None
    /\ pc # "panicked"
    /\ pc' = "addressed" => Len(addressed'.text) = Len(text)

\* C16 as stated: every step is a step of a terminating run, and a ParseError is
\* raised by the step that took the first offending token (the end of input apart),
\* whose span it carries; so the step that reads the value that no longer fits the
\* data stream fails.
C16_FirstOffendingToken ==
    [][/\ TerminatingStep
       /\ (Parsing /\ pc' = "panicked" /\ err'.kind \notin {"UnexpectedEof", "UnknownLabel"}) =>
            /\ Len(taken') >= 1
            /\ ErrSpan(err') = Consumed'
       /\ (pc = "parse_number_list" /\ TookNumber(taken')
             /\ Len(data) + Len(numbers) >= 255) =>
            pc' = "panicked"
      ]_vars

\* C16 amended: every step takes at least one token or moves the run forward, no
\* token being given back, and a step of a section loop that goes on takes at least
\* one token, so that a finite source is parsed in finitely many steps; parsing
\* ends in success only at the end of input with every token taken, or in one
\* ParseError, after which no step is taken; address_program yields one
\* instruction per text entry.  A ParseError other than DataOverflow is raised by
\* the step that took the offending token, whose span it carries; DataOverflow is
\* raised only once the whole run of values has been read and the token after it
\* lexed, whose span it carries, the step that reads a value that no longer fits
\* going on.
C16_AssemblyTerminates ==
    [][/\ TerminatingStep
       /\ (Parsing /\ pc' = "panicked"
             /\ err'.kind \notin {"UnexpectedEof", "UnknownLabel", "DataOverflow"}) =>
            /\ Len(taken') >= 1
            /\ ErrSpan(err') = Consumed'
       /\ (pc' = "panicked" /\ err'.kind = "DataOverflow") =>
            /\ pc = "parse_number_list"
            /\ taken' = <<>>
            /\ Len(data) + Len(numbers) > 255
            /\ ErrSpan(err') = span(lexer')
            /\ Consumed' = Consumed
       /\ (pc = "parse_number_list" /\ TookNumber(taken')) =>
            /\ pc' = "parse_number_list"
            /\ data' = data
      ]_vars

\* a run of 256 values and more read to its end, where `.number noop` is refused:
\* the error is not the overflow of the data stream
C16_Witness ==
    /\ lexer.src.name = "overfull_data"
    /\ pc = "panicked"
    /\ err.kind = "InvalidToken"
    /\ err.found = "noop"
    /\ Consumed > 3 + 2 * 256
    /\ data = <<>>

\* C17: a definition of a label records the length of its stream at that moment,
\* the text stream's for a text label and the data stream's for a data label; in
\* every state every recorded address is at most the length of its stream and at
\* most 255.
C17_LabelAddressIsStreamLength ==
    [][/\ \A n \in Names :
            /\ (pc = "parse_text" /\ TookLabelDef(taken', n) /\ n \notin DOMAIN text_labels)
                 => /\ n \in DOMAIN text_labels'
                    /\ text_labels'[n].loc = Len(text)
            /\ (pc = "parse_data" /\ TookLabelDef(taken', n) /\ n \notin DOMAIN data_labels)
                 => /\ n \in DOMAIN data_labels'
                    /\ data_labels'[n].loc = Len(data)
       /\ \A n \in DOMAIN text_labels' :
            text_labels'[n].loc <= Len(text') /\ text_labels'[n].loc <= 255
       /\ \A n \in DOMAIN data_labels' :
            data_labels'[n].loc <= Len(data') /\ data_labels'[n].loc <= 255
      ]_vars

\* a text label defined when the text stream is full: its address 255 is the
\* length of the stream
C17_Witness ==
    /\ Len(text) = 255
    /\ "X" \in DOMAIN text_labels
    /\ text_labels["X"].loc = 255
    /\ pc = "parse_text"

\* the data label defined last: at parse_number_list, the label of the run being read
RunLabel ==
    CHOOSE n \in DOMAIN data_labels :
       \A m \in DOMAIN data_labels : data_labels[m].span <= data_labels[n].span

\* a step that reads the tokens of a run: it changes no stream, and the label of
\* the run carries the length of the data stream
RunReadStep ==
    (pc = "parse_number_list" /\ taken' # <<>>) =>
       /\ data' = data
       /\ data_labels[RunLabel].loc = Len(data)
       /\ IF TookNumber(taken')
          THEN pc' = "parse_number_list" /\ numbers' = Append(numbers, taken'[2].val)
          ELSE pc' = "panicked"

\* C18 as stated: the step that ends a run appends its values, in source order, to
\* the data stream, the first at the address of the label of the run; the steps
\* that read the run change no stream, and an error of any step of the run leaves
\* the data stream without any value of the run.
C18_RunAppendedWhole ==
    [][/\ RunReadStep
       /\ (pc = "parse_data" /\ pc' = "parse_number_list") =>
            numbers' = <<>> /\ data_labels'[RunLabel'].loc = Len(data)
       /\ (pc = "parse_number_list" /\ taken' = <<>>) =>
            /\ pc' = "parse_data"
            /\ data' = data \o numbers
            /\ data_labels[RunLabel].loc = Len(data)
       /\ (pc = "parse_number_list" /\ pc' = "panicked") => data' = data
      ]_vars

\* C18 amended: the steps that read a run change no stream, so an error met while
\* reading it leaves the data stream without any value of the run; the step that
\* ends a run whose values all fit under the ceiling of 255 appends them in source
\* order, the first at the address of the label of the run; the step that ends a
\* run that does not fit appends, in order, the values that fit and fails with
\* DataOverflow.
C18_RunAppended ==
    [][/\ RunReadStep
       /\ (pc = "parse_data" /\ pc' = "parse_number_list") =>
            numbers' = <<>> /\ data_labels'[RunLabel'].loc = Len(data)
       /\ (pc = "parse_number_list" /\ taken' = <<>>) =>
            /\ data_labels[RunLabel].loc = Len(data)
            /\ IF Len(data) + Len(numbers) <= 255
               THEN /\ pc' = "parse_data"
                    /\ data' = data \o numbers
               ELSE /\ pc' = "panicked"
                    /\ err'.kind = "DataOverflow"
                    /\ data' = data \o SubSeq(numbers, 1, 255 - Len(data))
       /\ (pc = "parse_number_list" /\ pc' = "panicked" /\ err'.kind # "DataOverflow") =>
            data' = data
      ]_vars

\* the run 0x1234 32767 5 appended at the address of its label
C18_Witness ==
    /\ lexer.src.name = "words"
    /\ pc = "parse_data"
    /\ data = <<4660, 32767, 5>>
    /\ data_labels["X"].loc = 0
    /\ peeked = Tok("Text")

\* C19: `.number` met at the top of the data section loop, where no run is being
\* read, fails with InvalidToken expecting .label; `.number` followed by a token that
\* is no numeric literal fails with InvalidToken expecting an integer; a run is
\* entered only by a label definition, and the data stream changes only at the end
\* of a run.
C19_NumbersOnlyInRuns ==
    [][/\ (pc = "parse_data" /\ taken' # <<>> /\ taken'[1] = Tok("Number")) =>
            /\ taken' = <<Tok("Number")>>
            /\ pc' = "panicked"
            /\ err' = InvalidToken(".number", "expected .label", Consumed')
       /\ (pc = "parse_number_list" /\ Len(taken') = 2 /\ taken'[2].kind # "NumLiteral") =>
            /\ taken'[1] = Tok("Number")
            /\ pc' = "panicked"
            /\ err' = InvalidToken(to_string(taken'[2]), "expected an integer", Consumed')
       /\ pc' = "parse_number_list" =>
            \/ pc = "parse_data" /\ \E n \in Names : TookLabelDef(taken', n)
            \/ pc = "parse_number_list" /\ TookNumber(taken')
       /\ numbers' # <<>> => pc = "parse_number_list" /\ TookNumber(taken')
       /\ data' # data => pc = "parse_number_list" /\ taken' = <<>>
      ]_vars

\* `.number` refused first thing in a data block that follows a text block
C19_Witness ==
    /\ pc = "panicked"
    /\ err.kind = "InvalidToken"
    /\ err.found = ".number"
    /\ err.expected = "expected .label"
    /\ Len(text) >= 1
    /\ taken = <<Tok("Number")>>

\* the step met the end of input
MetEof == lexer'.eof /\ ~lexer.eof

\* C20: a step that meets the end of input where an operand is due fails with
\* UnexpectedEof and the description of the operand: a label after add, sub, mul,
\* div, rem, and, stor, beqz, br and after .label, an integer after an immediate
\* mnemonic and after .number; the end of input met at the top of a section loop
\* ends parsing with success, and met after a label definition followed by no
\* value it ends the empty run, after which parsing ends with success.
C20_EofInConstruct ==
    [][/\ (MetEof /\ taken' # <<>>) =>
            /\ Len(taken') = 1
            /\ pc' = "panicked"
            /\ \/ /\ pc = "parse_text"
                  /\ taken'[1].kind \in LabelOps \cup {"Label"}
                  /\ err' = UnexpectedEof("expected a label")
               \/ /\ pc = "parse_text"
                  /\ taken'[1].kind \in ImmediateOps
                  /\ err' = UnexpectedEof("expected an integer")
               \/ /\ pc = "parse_data"
                  /\ taken'[1].kind = "Label"
                  /\ err' = UnexpectedEof("expected a label")
               \/ /\ pc = "parse_number_list"
                  /\ taken'[1].kind = "Number"
                  /\ err' = UnexpectedEof("expected an integer")
            /\ <<text', data', text_labels', data_labels'>>
                 = <<text, data, text_labels, data_labels>>
       /\ (MetEof /\ taken' = <<>> /\ pc \in {"parse_text", "parse_data"}) =>
            pc' = "parsed" /\ err' = None
       /\ (MetEof /\ pc = "parse_number_list" /\ taken' = <<>>) =>
            /\ numbers = <<>> => pc' = "parse_data"
            /\ pc' = "panicked" => err'.kind = "DataOverflow"
       /\ (lexer.eof /\ Parsing) => pc = "parse_data" /\ pc' = "parsed" /\ err' = None
       /\ (pc' = "panicked" /\ err'.kind = "UnexpectedEof") => MetEof
      ]_vars

\* the end of input met right after `stor`
C20_Witness ==
    /\ pc = "panicked"
    /\ err = UnexpectedEof("expected a label")
    /\ taken = <<Tok("Store")>>
    /\ lexer.eof

\* the token at place i of the source, where the source is fixed there
SourceTokenIs(i, t) ==
    i <= Len(Opening(lexer.src)) => t = Lex(Opening(lexer.src)[i])

\* the last token a step took is of a kind not allowed where it stands: an error
\* token, an identifier that is not the operand of a label mnemonic or of .label,
\* a literal that is not the operand of an immediate mnemonic or of .number, or
\* another token where such an operand is due
Misplaced(toks) ==
    LET last == toks[Len(toks)]
        labelDue == Len(toks) = 2 /\ toks[1].kind \in LabelOps \cup {"Label"}
        integerDue == Len(toks) = 2 /\ toks[1].kind \in ImmediateOps \cup {"Number"}
    IN \/ last.kind = "Error"
       \/ last.kind = "LabelIdent" /\ ~labelDue
       \/ last.kind = "NumLiteral" /\ ~integerDue
       \/ labelDue /\ last.kind # "LabelIdent"
       \/ integerDue /\ last.kind # "NumLiteral"

\* C21: the tokens a step takes are the next tokens of the source, in order, each
\* taken once; a token held in peeked is the last one lexed and is the first one
\* the next step takes; a step whose last token is an error token, or a token of a
\* kind not allowed where it stands, fails with InvalidToken naming that token and
\* carrying its span.
C21_TokensOnceInOrder ==
    [][/\ Consumed' = Consumed + Len(taken')
       /\ \A i \in 1..Len(taken') : SourceTokenIs(Consumed + i, taken'[i])
       /\ peeked' # None => lexer'.n = Consumed' + 1 /\ SourceTokenIs(lexer'.n, peeked')
       /\ peeked' = None => lexer'.n = Consumed'
       /\ (peeked # None /\ Parsing) => taken' # <<>> /\ taken'[1] = peeked
       /\ (Parsing /\ taken' # <<>> /\ Misplaced(taken')) =>
            /\ pc' = "panicked"
            /\ err'.kind = "InvalidToken"
            /\ err'.found = to_string(taken'[Len(taken')])
            /\ err'.span = Consumed'
       /\ (pc' = "panicked" /\ err'.kind = "InvalidToken") =>
            \/ Misplaced(taken')
            \/ Len(taken') = 1 /\ taken'[1].kind \in {"Text", "Data", "Number"} \cup
                                   (IF pc = "parse_text" THEN {} ELSE TextArmKinds)
      ]_vars

\* the `.text` that ended the run of X in the interleaved source, seen by
\* peek_token, has just been taken by the loop of parse_data
C21_Witness ==
    /\ lexer.src.name = "interleaved"
    /\ pc = "parse_text"
    /\ taken = <<Tok("Text")>>
    /\ Consumed = 8
    /\ peeked = None
    /\ data = <<5>>

\* the number a numeric word writes
RECURSIVE DigitsValue(_, _)
DigitsValue(ds, radix) ==
    IF ds = <<>> THEN 0 ELSE DigitsValue(SubSeq(ds, 1, Len(ds) - 1), radix) * radix + ds[Len(ds)]

WordValue(w) == DigitsValue(w.digits, IF w.kind = "hex" THEN 16 ELSE 10)

\* numeric words about the ends of the 16-bit range
NumericWords ==
    {Dec(<<0>>), Dec(<<5>>), Dec(<<0, 0, 7>>), Dec(<<3, 2, 7, 6, 7>>), Dec(<<3, 2, 7, 6, 8>>),
     Dec(<<6, 5, 5, 3, 5>>), Dec(<<6, 5, 5, 3, 6>>), Dec(<<6, 5, 5, 4, 1>>),
     Dec(<<0, 0, 3, 2, 7, 6, 7>>), Hex(<<0>>), Hex(<<7, 15>>), Hex(<<7, 15, 15, 15>>),
     Hex(<<8, 0, 0, 0>>), Hex(<<15, 15, 15, 15>>), Hex(<<1, 0, 0, 0, 0>>),
     Hex(<<1, 0, 0, 0, 5>>), Hex(<<0, 0, 7, 15, 15, 15>>)}

\* C22: a decimal or hexadecimal word lexes to the NumLiteral of the number it
\* writes when that number is at most 32767 and to an error token otherwise; a step
\* that takes `.number` and an error token fails; a value read from a fixed place
\* of the source is the number written there; every word of the data stream, of a
\* run being read and of the image is within 0..32767.
C22_DataWordsExact ==
    [][/\ \A w \in NumericWords :
            Lex(w) = IF WordValue(w) <= 32767 THEN NumLiteral(WordValue(w)) ELSE ErrorToken
       /\ (pc = "parse_number_list" /\ Len(taken') = 2 /\ taken'[2].kind = "Error") =>
            /\ pc' = "panicked"
            /\ err' = InvalidToken("Error", "expected an integer", Consumed')
            /\ data' = data
       /\ (pc = "parse_number_list" /\ TookNumber(taken')
             /\ Consumed' <= Len(Opening(lexer.src))) =>
            /\ taken'[2].val = WordValue(Opening(lexer.src)[Consumed'])
            /\ numbers' = Append(numbers, WordValue(Opening(lexer.src)[Consumed']))
       /\ \A k \in 1..Len(numbers') : numbers'[k] \in 0..32767
       /\ \A k \in 1..Len(data') : data'[k] \in 0..32767
       /\ addressed' # None =>
            /\ addressed'.data = data'
            /\ \A k \in 1..Len(addressed'.data) : addressed'.data[k] \in 0..32767
      ]_vars

\* `.data .label X .number 0x7fff .number 0x8000` refused at 0x8000
C22_Witness ==
    /\ lexer.src.name = "wide"
    /\ pc = "panicked"
    /\ err = InvalidToken("Error", "expected an integer", 7)
    /\ taken = <<Tok("Number"), ErrorToken>>

\* the step took a mnemonic and the label n
TookLabelUse(toks, n) ==
    Len(toks) = 2 /\ toks[1].kind \in LabelOps /\ toks[2] = LabelIdent(n)

\* C23: while tokens are taken no label is looked up: an instruction is appended
\* with the name of its label whether or not the label is in a table, and no step
\* of the parser fails with UnknownLabel; the step of address_program changes
\* neither stream nor table nor the token state, and address_program applied to
\* the parser after the step gives the result the step gave.
C23_ResolutionAfterParsing ==
    [][/\ Parsing =>
            /\ pc' = "panicked" => err'.kind # "UnknownLabel"
            /\ addressed' = None
            /\ \A n \in Names :
                 (TookLabelUse(taken', n) /\ Len(text) < 255) =>
                    /\ pc' = "parse_text"
                    /\ text' = Append(text, LabelInstr(taken'[1].kind, n))
       /\ pc = "parsed" =>
            /\ <<text', data', text_labels', data_labels', lexer', peeked'>>
                 = <<text, data, text_labels, data_labels, lexer, peeked>>
            /\ LET again == address_program(text', data', text_labels', data_labels')
               IN IF again.ok
                  THEN pc' = "addressed" /\ addressed' = again.val
                  ELSE pc' = "panicked" /\ err' = again.err /\ addressed' = None
      ]_vars

\* an instruction whose label is in no table was appended, parsing went on to the
\* end, and address_program failed on it, the text stream still holding it
C23_Witness ==
    /\ pc = "panicked"
    /\ err = UnknownLabel("Y")
    /\ text_labels = NoLabels
    /\ data_labels = NoLabels
    /\ Len(text) = 2
    /\ text[2] = LabelInstr("Store", "Y")

\* C24: `.text` taken in the text section fails with InvalidToken expecting a
\* mnemonic, a label or .data, and `.data` taken in the data section fails with
\* InvalidToken expecting .label; neither changes a stream or a table.
C24_NoSectionReentry ==
    [][/\ (pc = "parse_text" /\ taken' # <<>> /\ taken'[1] = Tok("Text")) =>
            /\ taken' = <<Tok("Text")>>
            /\ pc' = "panicked"
            /\ err' = InvalidToken(".text", "expected mnemonic, label, or .data", Consumed')
            /\ <<text', data', text_labels', data_labels'>>
                 = <<text, data, text_labels, data_labels>>
       /\ (pc = "parse_data" /\ taken' # <<>> /\ taken'[1] = Tok("Data")) =>
            /\ taken' = <<Tok("Data")>>
            /\ pc' = "panicked"
            /\ err' = InvalidToken(".data", "expected .label", Consumed')
            /\ <<text', data', text_labels', data_labels'>>
                 = <<text, data, text_labels, data_labels>>
      ]_vars

\* `.text` refused in the text section, after an instruction
C24_Witness ==
    /\ pc = "panicked"
    /\ err.kind = "InvalidToken"
    /\ err.found = ".text"
    /\ err.expected = "expected mnemonic, label, or .data"
    /\ taken = <<Tok("Text")>>
    /\ Len(text) >= 1

====
